---- MODULE Spec2Model ----
(***************************************************************************)
(* Proof-of-work ledger of src/src/main.rs: Block, ProofOfWork, Blockchain *)
(* and the process-wide BLOCKCHAIN singleton (OnceLock<Mutex<Blockchain>>).*)
(*                                                                         *)
(* Byte strings are sequences of 0..255.  The digest width, the difficulty *)
(* and the nonce bound are scaled down so that both exits of the mining    *)
(* loop (a digest below the target, and the loop bound) are explored.      *)
(***************************************************************************)
EXTENDS Integers, Sequences, FiniteSets, TLC

\* ---- scaled widths and bounds of the exploration ----
DIGEST_BYTES == 1     \* Sha256 yields 32 bytes; scaled
TARGET_BITS == 2      \* main.rs:7 sets 20; scaled with the digest width
MAX_NONCE == 3        \* main.rs:8 sets u64::MAX; scaled
NumThreads == 2       \* callers of get_blockchain
MaxBlocks == 3        \* cap on the ledger length
MaxTime == 0          \* SystemTime::now() seconds range over 0..MaxTime
MaxLen == 2           \* longest payload of a serialisation compared with another

DIGEST_BITS == 8 * DIGEST_BYTES
Threads == 1..NumThreads
NoThread == 0
NoPow == [at |-> "none"]

RECURSIVE Pow2(_)
Pow2(n) == IF n = 0 THEN 1 ELSE 2 * Pow2(n - 1)

\* number of values of a digest
Modulus == Pow2(DIGEST_BITS)

\* ---- byte strings ----
GenesisData == <<71, 101, 110, 101, 115, 105, 115, 32, 66, 108, 111, 99, 107>>
Send1 == <<83, 101, 110, 100, 32, 49, 32, 66, 84, 67, 32, 116, 111, 32, 73, 118, 97, 110>>
Send2 == <<83, 101, 110, 100, 32, 50, 32, 109, 111, 114, 101, 32, 66, 84, 67, 32, 116, 111, 32, 73, 118, 97, 110>>
Payloads == {Send1, Send2}

\* byte k (0 = least significant) of the two's-complement encoding of v >= 0
RECURSIVE ByteOf(_, _)
ByteOf(v, k) == IF k = 0 THEN v % 256 ELSE ByteOf(v \div 256, k - 1)

\* i64::to_be_bytes: 8 bytes, most significant first
to_be_bytes(v) == [i \in 1..8 |-> ByteOf(v, 8 - i)]

\* BigUint::from_bytes_be
RECURSIVE from_bytes_be(_)
from_bytes_be(bytes) ==
    IF bytes = <<>> THEN 0
    ELSE 256 * from_bytes_be(SubSeq(bytes, 1, Len(bytes) - 1)) + bytes[Len(bytes)]

\* Sha256::digest, scaled to DIGEST_BYTES bytes: a deterministic mixing of
\* every input byte in order, h <- 31 * h + byte + 7 (mod 2^DIGEST_BITS) from
\* h = 27, then h <- 3 * h * h + 5 * h + 11, returned as a fixed-width
\* big-endian byte string.  Mix folds bytes[lo..hi] into h, by halves; the
\* one-element sets bind each intermediate value once it is computed.
MulMod(x, y) ==
    (((x * (y \div 256)) % Modulus) * 256 + x * (y % 256)) % Modulus

RECURSIVE Mix(_, _, _, _)
Mix(h, bytes, lo, hi) ==
    IF lo > hi THEN h
    ELSE IF lo = hi THEN (31 * h + bytes[lo] + 7) % Modulus
    ELSE CHOOSE r \in UNION {{Mix(left, bytes, mid + 1, hi) :
                                 left \in {Mix(h, bytes, lo, mid)}} :
                                 mid \in {(lo + hi) \div 2}} : TRUE

Scramble(g) == (MulMod(MulMod(g, g), 3) + MulMod(g, 5) + 11) % Modulus

Sha256(bytes) ==
    CHOOSE digest \in {[i \in 1..DIGEST_BYTES |-> ByteOf(h, DIGEST_BYTES - i)] :
                          h \in {Scramble(Mix(27, b, 1, Len(b))) : b \in {bytes}}} : TRUE

\* ---- Block and ProofOfWork ----
NewBlock(ts, data, prev_block_hash) ==
    [timestamp |-> ts, data |-> data, prev_block_hash |-> prev_block_hash,
     hash |-> <<>>, nonce |-> 0]

\* variant: the shift count is the difficulty itself
TargetOf_unshifted(bits) == Pow2(bits)

\* ProofOfWork::new: target = 1 << (256 - TARGET_BITS), as a function of the
\* difficulty
TargetOf(bits) == Pow2(DIGEST_BITS - bits)

Target == TargetOf(TARGET_BITS)

\* variant: the payload is left out of the serialisation
prepare_data_no_payload(block, nonce) ==
    block.prev_block_hash \o to_be_bytes(block.timestamp)
        \o to_be_bytes(TARGET_BITS) \o to_be_bytes(nonce)

\* ProofOfWork::prepare_data
prepare_data(block, nonce) ==
    block.prev_block_hash \o block.data \o to_be_bytes(block.timestamp)
        \o to_be_bytes(TARGET_BITS) \o to_be_bytes(nonce)

\* the loop condition of ProofOfWork::run
LoopCond(nonce) == nonce < MAX_NONCE

\* variant: a failed attempt skips the next nonce
NextNonce_skip(nonce) == nonce + 2

\* variant: a failed attempt leaves the nonce as it is
NextNonce_stuck(nonce) == nonce

\* nonce += 1
NextNonce(nonce) == nonce + 1

\* variant: a digest equal to the target is accepted
BelowTarget_or_equal(hash, target) == from_bytes_be(hash) <= target

\* hash_int < self.target
BelowTarget(hash, target) == from_bytes_be(hash) < target

\* ProofOfWork::validate
validate(block) == BelowTarget(Sha256(prepare_data(block, block.nonce)), Target)

\* Block::new, after run returned (nonce, hash)
Finalize(block, nonce, hash) == [block EXCEPT !.hash = hash, !.nonce = nonce]

\* ---- Blockchain ----
\* variant: the hash of the first block instead of the last
get_prev_hash_first(bs) == IF bs # <<>> THEN bs[1].hash ELSE <<>>

\* variant: the empty branch is taken whatever the ledger holds
get_prev_hash_empty(bs) == <<>>

get_prev_hash(bs) == IF bs # <<>> THEN bs[Len(bs)].hash ELSE <<>>

\* variant: the new block overwrites the last one
Push_overwrite(bs, block) ==
    IF bs = <<>> THEN <<block>> ELSE [bs EXCEPT ![Len(bs)] = block]

\* self.blocks.push
Push(bs, block) == Append(bs, block)

\* variant: validate runs on the stored block and resets its nonce
ShowLedger_in_place(bs) == [i \in 1..Len(bs) |-> [bs[i] EXCEPT !.nonce = 0]]

\* show_blocks: validate runs on a clone of each block; the ledger is untouched
ShowLedger(bs) == bs

\* variant: a caller that finds the cell not yet filled runs the initialiser
OnceEmpty_racy(cell) == cell # "done"

\* OnceLock::get_or_init runs its closure for the one caller that finds the
\* cell empty
OnceEmpty(cell) == cell = "uninit"

\* variant: the lock is granted whoever holds it
MutexFree_always(owner) == TRUE

\* Mutex::lock returns once no guard is alive
MutexFree(owner) == owner = NoThread

\* hex::encode: two hexadecimal digits per byte, the high one first
hex_encode(bytes) ==
    [i \in 1..(2 * Len(bytes)) |->
        IF i % 2 = 1 THEN bytes[(i + 1) \div 2] \div 16 ELSE bytes[i \div 2] % 16]

PoWColumn(bs) == [i \in 1..Len(bs) |-> validate(bs[i])]

VARIABLES
    once,     \* OnceLock BLOCKCHAIN: "uninit", "running", "done"
    blocks,   \* Blockchain.blocks
    lock,     \* owner of the Mutex guard, or NoThread
    pc,       \* position of each thread
    pow,      \* per thread: the Block::new / ProofOfWork::run in progress
    shown,    \* the PoW column printed by the last show_blocks
    args,     \* arguments of a function evaluated on its own, else <<>>
    result    \* its results, <<>> before it is evaluated

vars == <<once, blocks, lock, pc, pow, shown, args, result>>

Init ==
    /\ once = "uninit"
    /\ blocks = <<>>
    /\ lock = NoThread
    /\ pc = [t \in Threads |-> "start"]
    /\ pow = [t \in Threads |-> NoPow]
    /\ shown = <<>>
    /\ args = <<>>
    /\ result = <<>>

\* Block::new up to the call of run: the candidate block and run's locals
StartPow(ts, data, prev) ==
    [at |-> "loop", block |-> NewBlock(ts, data, prev), target |-> Target,
     nonce |-> 0, hash |-> [i \in 1..DIGEST_BYTES |-> 0]]

\* get_blockchain, first caller: get_or_init runs Blockchain::new, which
\* starts generate_genesis
GetBlockchainInit(t) ==
    /\ pc[t] = "start"
    /\ OnceEmpty(once)
    /\ once' = "running"
    /\ blocks' = <<>>
    /\ \E ts \in 0..MaxTime :
          pow' = [pow EXCEPT ![t] = StartPow(ts, GenesisData, <<>>)]
    /\ pc' = [pc EXCEPT ![t] = "genesis"]
    /\ UNCHANGED <<lock, shown, args, result>>

\* get_blockchain once the cell is initialised (callers block while it runs)
GetBlockchain(t) ==
    /\ pc[t] = "start"
    /\ once = "done"
    /\ pc' = [pc EXCEPT ![t] = "ready"]
    /\ UNCHANGED <<once, blocks, lock, pow, shown, args, result>>

\* blockchain_mutex.lock().unwrap()
Lock(t) ==
    /\ pc[t] = "ready"
    /\ MutexFree(lock)
    /\ lock' = t
    /\ pc' = [pc EXCEPT ![t] = "locked"]
    /\ UNCHANGED <<once, blocks, pow, shown, args, result>>

\* add_block up to the call of run
AddBlock(t) ==
    /\ pc[t] = "locked"
    /\ Len(blocks) < MaxBlocks
    /\ \E data \in Payloads, ts \in 0..MaxTime :
          pow' = [pow EXCEPT ![t] = StartPow(ts, data, get_prev_hash(blocks))]
    /\ pc' = [pc EXCEPT ![t] = "adding"]
    /\ UNCHANGED <<once, blocks, lock, shown, args, result>>

\* one evaluation of the while condition of run and, if it holds, of the body
RunStep(t) ==
    /\ pow[t].at = "loop"
    /\ \E p \in {pow[t]} :
         IF LoopCond(p.nonce)
         THEN \E hash \in {Sha256(prepare_data(p.block, p.nonce))} :
                IF BelowTarget(hash, p.target)
                THEN pow' = [pow EXCEPT ![t] = [p EXCEPT !.hash = hash, !.at = "exit"]]
                ELSE pow' = [pow EXCEPT ![t] =
                               [p EXCEPT !.hash = hash, !.nonce = NextNonce(p.nonce)]]
         ELSE pow' = [pow EXCEPT ![t] = [p EXCEPT !.at = "exit"]]
    /\ UNCHANGED <<once, blocks, lock, pc, shown, args, result>>

\* run returns; Block::new stores hash and nonce; the block is pushed
RunExit(t) ==
    /\ pow[t].at = "exit"
    /\ blocks' = Push(blocks, Finalize(pow[t].block, pow[t].nonce, pow[t].hash))
    /\ pow' = [pow EXCEPT ![t] = NoPow]
    /\ IF pc[t] = "genesis"
       THEN /\ once' = "done"
            /\ pc' = [pc EXCEPT ![t] = "ready"]
       ELSE /\ once' = once
            /\ pc' = [pc EXCEPT ![t] = "locked"]
    /\ UNCHANGED <<lock, shown, args, result>>

ShowBlocks(t) ==
    /\ pc[t] = "locked"
    /\ shown' = PoWColumn(blocks)
    /\ blocks' = ShowLedger(blocks)
    /\ UNCHANGED <<once, lock, pc, pow, args, result>>

\* the guard is dropped at the end of main
Unlock(t) ==
    /\ pc[t] = "locked"
    /\ lock' = NoThread
    /\ pc' = [pc EXCEPT ![t] = "done"]
    /\ UNCHANGED <<once, blocks, pow, shown, args, result>>

Next ==
    \E t \in Threads :
        \/ GetBlockchainInit(t)
        \/ GetBlockchain(t)
        \/ Lock(t)
        \/ AddBlock(t)
        \/ RunStep(t)
        \/ RunExit(t)
        \/ ShowBlocks(t)
        \/ Unlock(t)

Spec == Init /\ [][Next]_vars

\* ---- shorthands for the claims ----
Records == {blocks[i] : i \in 1..Len(blocks)}

\* C1: every record produced by Block::new passes validate, whichever way
\* the mining loop of run was left.
C1_MinedRecordValidates == \A b \in Records : validate(b)

\* C2: every adjacent pair of records (A, B) of the ledger has
\* B.prev_block_hash = A.hash.
C2_ChainLinkage ==
    \A i \in 1..(Len(blocks) - 1) : blocks[i + 1].prev_block_hash = blocks[i].hash

C2_Witness ==
    /\ Len(blocks) >= 3
    /\ blocks[3].prev_block_hash = blocks[2].hash
    /\ blocks[2].hash # blocks[1].hash

\* C3: run never returns a (nonce, hash) pair whose hash is not strictly
\* below the target; exhaustion is surfaced otherwise than by such a pair.
C3_NoUnsatisfyingPair ==
    \A t \in Threads : pow[t].at = "exit" => BelowTarget(pow[t].hash, pow[t].target)

\* C4: re-hashing the serialisation of a stored record with its stored nonce
\* reproduces its stored hash.
C4_RehashReproducesDigest ==
    \A b \in Records : Sha256(prepare_data(b, b.nonce)) = b.hash

\* C5: the stored hash of every non-genesis record, as a big-endian integer,
\* is strictly below the target.
C5_NonGenesisBelowTarget ==
    \A i \in 2..Len(blocks) : BelowTarget(blocks[i].hash, Target)

\* C6: once initialised the ledger is non-empty, its first record has an
\* empty prev_block_hash and no other record has one; add_block never takes
\* the empty branch of get_prev_hash.
C6_GenesisShape ==
    /\ once = "done" =>
          /\ Len(blocks) >= 1
          /\ blocks[1].prev_block_hash = <<>>
          /\ \A i \in 2..Len(blocks) : blocks[i].prev_block_hash # <<>>
    /\ \A t \in Threads :
          pc[t] = "adding" => pow[t].block.prev_block_hash # <<>>

C6_Witness ==
    /\ once = "done"
    /\ Len(blocks) >= 2
    /\ \E t \in Threads : pc[t] = "adding"
\* C7: the ledger is append-only and its records immutable: every step keeps
\* every stored record, unchanged and in place; a completed add_block makes
\* the ledger exactly one record longer; show_blocks leaves it as it is.
C7_Step ==
    /\ Len(blocks') >= Len(blocks)
    /\ \A i \in 1..Len(blocks) : blocks'[i] = blocks[i]
    /\ (\E t \in Threads : pc[t] = "adding" /\ pc'[t] = "locked")
          => Len(blocks') = Len(blocks) + 1
    /\ shown' # shown => blocks' = blocks

C7_AppendOnly == [][C7_Step]_vars

C7_Witness ==
    /\ shown # <<>>
    /\ Len(blocks) = Len(shown) + 1
    /\ Len(blocks) >= 3

\* C9: validate is pure: a show_blocks step changes no record of the ledger
\* and no block under construction, and the boolean it printed for a record
\* is the one validate yields for that record at any later time.
C9_ShowStep == shown' # shown => blocks' = blocks /\ pow' = pow

C9_SameAnswer ==
    \A i \in 1..Len(shown) : i <= Len(blocks) /\ shown[i] = validate(blocks[i])

C9_ValidatePure == [][C9_ShowStep]_vars /\ []C9_SameAnswer

C9_Witness ==
    /\ Len(shown) >= 2
    /\ Len(blocks) > Len(shown)
    /\ \E i, j \in 1..Len(shown) : shown[i] /\ blocks[i].nonce > 0 /\ ~shown[j]

\* a step that appends to the ledger or reads it (get_prev_hash, show_blocks)
LedgerAccess ==
    \/ blocks' # blocks
    \/ shown' # shown
    \/ \E t \in Threads : pc[t] # "adding" /\ pc'[t] = "adding"

\* C10 as stated: every mutation and every read of the ledger occurs while
\* the mutex guarding it is held.
C10_AllAccessUnderLock == [][LedgerAccess => lock # NoThread]_vars

\* C10 amended: every add_block and every read of the ledger is a step of the
\* thread that holds the mutex, no other thread being inside an operation;
\* the genesis record alone is pushed with no lock held, by the one thread
\* running the OnceLock initialiser, before any other thread has the ledger.
C10_Step ==
    LedgerAccess =>
        \/ /\ once = "running"
           /\ \E t \in Threads :
                 pc[t] = "genesis" /\ \A u \in Threads \ {t} : pc[u] = "start"
        \/ /\ once = "done"
           /\ lock \in Threads
           /\ pc[lock] \in {"locked", "adding"}
           /\ \A u \in Threads \ {lock} :
                 /\ pc[u] \notin {"locked", "adding", "genesis"}
                 /\ pc'[u] = pc[u]
                 /\ pow'[u] = pow[u]

C10_AccessByLockHolder == [][C10_Step]_vars

C10_Witness ==
    /\ lock \in Threads
    /\ pc[lock] = "adding"
    /\ \E u \in Threads \ {lock} : pc[u] = "ready"
    /\ Len(blocks) >= 2
\* the digest run computes for the candidate block of thread t with nonce k
DigestAt(t, k) == Sha256(prepare_data(pow[t].block, k))

\* C13: run tries the nonces in increasing order from 0 and stops at the
\* first success: every nonce below the current one has a digest that is not
\* below the target, so a nonce returned with a digest below the target is
\* the least satisfying one.
C13_LeastNonce ==
    \A t \in Threads :
        pow[t].at \in {"loop", "exit"} =>
            /\ \A k \in 0..(pow[t].nonce - 1) :
                  ~BelowTarget(DigestAt(t, k), pow[t].target)
            /\ (pow[t].at = "exit" /\ BelowTarget(pow[t].hash, pow[t].target))
                  => pow[t].hash = DigestAt(t, pow[t].nonce)

C13_Witness ==
    \E t \in Threads :
        /\ pow[t].at = "exit"
        /\ pow[t].nonce >= 2
        /\ BelowTarget(pow[t].hash, pow[t].target)

\* C14: the loop of run covers every nonce from 0 up to and including
\* MAX_NONCE: if any nonce of 0..MAX_NONCE has a digest below the target,
\* run returns a pair whose digest is below the target.
C14_FullRangeSearched ==
    \A t \in Threads :
        (/\ pow[t].at = "exit"
         /\ \E k \in 0..MAX_NONCE : BelowTarget(DigestAt(t, k), pow[t].target))
            => BelowTarget(pow[t].hash, pow[t].target)
\* ---- ProofOfWork::run on its own: thread 1 runs it on any candidate block:
\* the genesis payload or a payload of main, a timestamp, and an empty
\* prev_block_hash or a digest.  The thread that called run executes its loop
\* without yielding, hence the fairness of RunStep.
SampleBytes == {0, 15, 16, 63, 64, 83, 127, 128, 200, 221, 254, 255}

SamplePrevs == {<<>>} \cup {[i \in 1..DIGEST_BYTES |-> b] : b \in SampleBytes}

MineInit ==
    /\ once = "uninit"
    /\ blocks = <<>>
    /\ lock = NoThread
    /\ pc = [t \in Threads |-> "start"]
    /\ shown = <<>>
    /\ args = <<>>
    /\ result = <<>>
    /\ \E ts \in 0..MaxTime, data \in Payloads \cup {GenesisData}, prev \in SamplePrevs :
          pow = [t \in Threads |-> IF t = 1 THEN StartPow(ts, data, prev) ELSE NoPow]

MineNext == RunStep(1)

MineSpec == MineInit /\ [][MineNext]_vars /\ WF_vars(RunStep(1))

\* C16: run always terminates: a run in its loop eventually leaves it, by a
\* digest below the target or by the loop bound, and every failed attempt
\* increases the nonce by one.
C16_NonceGrows ==
    \A t \in Threads :
        (pow[t].at = "loop" /\ pow'[t].at = "loop" /\ pow'[t] # pow[t])
            => pow'[t].nonce = pow[t].nonce + 1

C16_RunTerminates ==
    /\ [][C16_NonceGrows]_vars
    /\ \A t \in Threads : (pow[t].at = "loop") ~> (pow[t].at = "exit")

C16_Witness ==
    /\ pow[1].at = "exit"
    /\ pow[1].nonce = MAX_NONCE
    /\ ~BelowTarget(pow[1].hash, pow[1].target)

\* C18: the ledger is initialised exactly once: whatever the callers of
\* get_blockchain do, one thread at most runs Blockchain::new, once; the
\* filled cell stays filled and keeps its genesis record; the ledger holds
\* exactly one genesis record, and every caller that got the cell finds it.
C18_Step ==
    /\ once # "uninit" =>
          ~\E t \in Threads : pc[t] # "genesis" /\ pc'[t] = "genesis"
    /\ once = "done" => once' = "done" /\ blocks'[1] = blocks[1]

C18_State ==
    /\ Cardinality({t \in Threads : pc[t] = "genesis"}) =
          (IF once = "running" THEN 1 ELSE 0)
    /\ Cardinality({i \in 1..Len(blocks) : blocks[i].data = GenesisData}) =
          (IF once = "done" THEN 1 ELSE 0)
    /\ \A t \in Threads : pc[t] \notin {"start", "genesis"} => once = "done"

C18_InitialisedOnce == [][C18_Step]_vars /\ []C18_State

C18_Witness ==
    /\ \A t \in Threads : pc[t] \notin {"start", "genesis"}
    /\ Len(blocks) >= 2
\* ---- the target calculation on its own, for any two difficulties ----
TargetInit ==
    /\ once = "uninit"
    /\ blocks = <<>>
    /\ lock = NoThread
    /\ pc = [t \in Threads |-> "start"]
    /\ pow = [t \in Threads |-> NoPow]
    /\ shown = <<>>
    /\ args \in (0..DIGEST_BITS) \X (0..DIGEST_BITS)
    /\ result = <<>>

TargetApply ==
    /\ result = <<>>
    /\ result' = <<TargetOf(args[1]), TargetOf(args[2])>>
    /\ UNCHANGED <<once, blocks, lock, pc, pow, shown, args>>

TargetNext == TargetApply

TargetSpec == TargetInit /\ [][TargetNext]_vars

\* C11: the target is 1 << (DIGEST_BITS - difficulty), that is the target
\* times 2^difficulty is 2^DIGEST_BITS, and it is strictly decreasing in the
\* difficulty over 0..DIGEST_BITS.
C11_TargetDecreasing ==
    result # <<>> =>
        /\ result[1] * Pow2(args[1]) = Pow2(DIGEST_BITS)
        /\ result[2] * Pow2(args[2]) = Pow2(DIGEST_BITS)
        /\ args[1] < args[2] => result[1] > result[2]

C11_Witness ==
    /\ result # <<>>
    /\ args[1] = 0
    /\ args[2] = DIGEST_BITS
    /\ result[1] > result[2]
\* ---- the serialisation on its own, for any two candidate blocks: an empty
\* prev_block_hash or a digest, any payload of at most MaxLen bytes ----
SerBytes == {0, 83}

RECURSIVE BytesUpTo(_)
BytesUpTo(n) ==
    IF n = 0 THEN {<<>>}
    ELSE BytesUpTo(n - 1) \cup
         {Append(b, x) : b \in {c \in BytesUpTo(n - 1) : Len(c) = n - 1}, x \in SerBytes}

SerPrevs == {<<>>} \cup {b \in BytesUpTo(DIGEST_BYTES) : Len(b) = DIGEST_BYTES}

SerCandidates ==
    {<<NewBlock(ts, data, prev), nonce>> :
        ts \in 0..MaxTime, data \in BytesUpTo(MaxLen), prev \in SerPrevs,
        nonce \in {0, MAX_NONCE}}

SerInit ==
    /\ once = "uninit"
    /\ blocks = <<>>
    /\ lock = NoThread
    /\ pc = [t \in Threads |-> "start"]
    /\ pow = [t \in Threads |-> NoPow]
    /\ shown = <<>>
    /\ args \in SerCandidates \X SerCandidates
    /\ result = <<>>

SerApply ==
    /\ result = <<>>
    /\ result' = <<prepare_data(args[1][1], args[1][2]),
                   prepare_data(args[2][1], args[2][2])>>
    /\ UNCHANGED <<once, blocks, lock, pc, pow, shown, args>>

SerNext == SerApply

SerSpec == SerInit /\ [][SerNext]_vars

\* the two candidates differ in prev_block_hash or in payload
SerDiffer ==
    \/ args[1][1].prev_block_hash # args[2][1].prev_block_hash
    \/ args[1][1].data # args[2][1].data

AcceptInit ==
    /\ once = "uninit"
    /\ blocks = <<>>
    /\ lock = NoThread
    /\ pc = [t \in Threads |-> "start"]
    /\ pow = [t \in Threads |-> NoPow]
    /\ shown = <<>>
    /\ args \in [1..DIGEST_BYTES -> SampleBytes] \X (0..DIGEST_BITS)
    /\ result = <<>>

AcceptApply ==
    /\ result = <<>>
    /\ result' = <<BelowTarget(args[1], TargetOf(args[2])), hex_encode(args[1])>>
    /\ UNCHANGED <<once, blocks, lock, pc, pow, shown, args>>

AcceptNext == AcceptApply

AcceptSpec == AcceptInit /\ [][AcceptNext]_vars

\* bit j of a byte string, 1 being the most significant bit of the first byte
BitAt(bytes, j) == (bytes[(j - 1) \div 8 + 1] \div Pow2(7 - ((j - 1) % 8))) % 2

====
